---- MODULE Spec2Model ----
(***************************************************************************)
(* Model of the HAL fence of runtime/src/iree/hal/fence.{h,c}: a           *)
(* reference-counted, capacity-bounded set of (semaphore, payload value)   *)
(* timepoints with create / insert / join / retain / release / signal /    *)
(* fail / semaphore_list.                                                  *)
(*                                                                         *)
(* The heap is the function `fences` from fence addresses to fence         *)
(* objects; address NULL is the null handle.  The two tail arrays of a     *)
(* fence are modelled by their initialised prefix (malloc'd memory beyond  *)
(* it is never read by the code).  The host allocator is assumed to        *)
(* succeed while an address is free.  Every handler is one action; the     *)
(* values it returns to its caller are recorded in `ret`.                  *)
(*                                                                         *)
(* The second part models the canonicalization patterns of                 *)
(* hal.fence.create / join / await of                                      *)
(* compiler/src/iree/compiler/Dialect/HAL/IR/HALOpFolders.cpp: `ir` is the *)
(* program being rewritten, every pattern is one action.                   *)
(***************************************************************************)
EXTENDS Integers, Sequences, FiniteSets, TLC

\* ---- bounds of the model ----
MaxFences == 3      \* fence addresses 1..MaxFences
NumSems == 2        \* semaphores 1..NumSems
MaxValue == 1       \* payload values 0..MaxValue
MaxCap == 2         \* capacities passed to Create by the environment
MaxRef == 2         \* cap on a fence's reference count
MaxJoin == 2        \* length of the fence list passed to Join
MaxLen == 3         \* length of an Insert script (SpecInsert)

\* ---- program constants ----
UINT16_MAX == 65535
NULL == 0

FenceAddrs == 1..MaxFences
Sems == 1..NumSems
Values == 0..MaxValue
Capacities == 0..MaxCap

VARIABLES
  fences,          \* heap: address -> iree_hal_fence_t (or a freed block)
  semaphore_refs,  \* semaphore -> references held on it by fences
  ret,             \* what the last call returned / did to its collaborators
  script,          \* the calls a scripted caller performs, in order
  pc,              \* number of calls of the script performed
  owners,          \* SpecOwners: the threads sharing a fence
  ir               \* SpecRewrite: the program the canonicalizer rewrites

vars == <<fences, semaphore_refs, ret, script, pc, owners, ir>>

\* ---- statuses (iree_status_t): a code and the identity of the object ----
iree_ok_status == [code |-> "OK", id |-> 0]
RESOURCE_EXHAUSTED == [code |-> "RESOURCE_EXHAUSTED", id |-> 0]
iree_status_is_ok(status) == status.code = "OK"

iree_max(a, b) == IF a > b THEN a ELSE b

Min(S) == CHOOSE x \in S : \A y \in S : x <= y

\* a block of memory not (or no longer) holding a fence
FreeBlock ==
  [live |-> FALSE, ref_count |-> 0, capacity |-> 0, count |-> 0,
   semaphores |-> <<>>, payload_values |-> <<>>]

\* memory the handlers work on: the heap and the semaphores' reference counts
Mem == [fences |-> fences, semaphore_refs |-> semaphore_refs]

\* the allocator hands out a free address
iree_allocator_malloc(mem) ==
  Min({a \in FenceAddrs : ~mem.fences[a].live})
HasFreeBlock(mem) == \E a \in FenceAddrs : ~mem.fences[a].live

iree_hal_semaphore_retain(mem, semaphore) ==
  [mem EXCEPT !.semaphore_refs[semaphore] = @ + 1]
iree_hal_semaphore_release(mem, semaphore) ==
  [mem EXCEPT !.semaphore_refs[semaphore] = @ - 1]

\* array store a[i] = x on the initialised prefix of a tail array (1-based)
Store(a, i, x) ==
  IF i = Len(a) + 1 THEN Append(a, x) ELSE [a EXCEPT ![i] = x]

\* ---- iree_hal_fence_semaphore_list ----
iree_hal_fence_semaphore_list(mem, fence) ==
  IF fence = NULL
    THEN [count |-> 0, semaphores |-> <<>>, payload_values |-> <<>>]
    ELSE [count |-> mem.fences[fence].count,
          semaphores |-> mem.fences[fence].semaphores,
          payload_values |-> mem.fences[fence].payload_values]

\* ---- iree_hal_fence_create ----
\* mutant: the block is allocated before the capacity is tested and is not
\* given back when the capacity is rejected
iree_hal_fence_create_leaking(mem, capacity) ==
  LET fence == iree_allocator_malloc(mem)
      allocated == [mem EXCEPT !.fences[fence] =
                      [live |-> TRUE, ref_count |-> 1,
                       capacity |-> capacity % 65536, count |-> 0,
                       semaphores |-> <<>>, payload_values |-> <<>>]]
  IN IF capacity >= UINT16_MAX
       THEN [mem |-> allocated, status |-> RESOURCE_EXHAUSTED,
             out_fence |-> NULL]
       ELSE [mem |-> allocated, status |-> iree_ok_status, out_fence |-> fence]
iree_hal_fence_create(mem, capacity) ==
  IF capacity >= UINT16_MAX
    THEN [mem |-> mem, status |-> RESOURCE_EXHAUSTED, out_fence |-> NULL]
    ELSE LET fence == iree_allocator_malloc(mem) IN
         [mem |-> [mem EXCEPT !.fences[fence] =
                     [live |-> TRUE, ref_count |-> 1,
                      capacity |-> capacity % 65536, count |-> 0,
                      semaphores |-> <<>>, payload_values |-> <<>>]],
          status |-> iree_ok_status, out_fence |-> fence]

\* ---- iree_hal_fence_insert ----
\* the slots of the occupied region holding |semaphore| (the scan of the loop)
\* mutant: the scan misses the first slot
FindExistingFromSecond(list, semaphore) ==
  {i \in 2..list.count : list.semaphores[i] = semaphore}
FindExisting(list, semaphore) ==
  {i \in 1..list.count : list.semaphores[i] = semaphore}

\* the value stored for a semaphore found in the list
\* mutants: the smaller of the two is kept; the new value overwrites
MergedValueSmaller(stored, value) == IF stored > value THEN value ELSE stored
MergedValueOverwrite(stored, value) == value
MergedValue(stored, value) == iree_max(stored, value)

\* the capacity test before appending
\* mutant: off by one, one entry more than the capacity is accepted
CapacityReachedOffByOne(count, capacity) == count > capacity
CapacityReached(count, capacity) == count >= capacity

\* mutant: the semaphore is retained before the capacity is tested
iree_hal_fence_insert_retain_first(mem, fence, semaphore, value) ==
  LET list == iree_hal_fence_semaphore_list(mem, fence)
      found == FindExisting(list, semaphore)
  IN IF found # {}
       THEN LET i == Min(found) IN
            [mem |-> [mem EXCEPT !.fences[fence].payload_values[i] =
                        MergedValue(list.payload_values[i], value)],
             status |-> iree_ok_status]
       ELSE LET m0 == iree_hal_semaphore_retain(mem, semaphore) IN
         IF CapacityReached(list.count, mem.fences[fence].capacity)
         THEN [mem |-> m0, status |-> RESOURCE_EXHAUSTED]
         ELSE LET m1 == [m0 EXCEPT !.fences[fence].semaphores =
                           Store(@, list.count + 1, semaphore)]
                  m3 == [m1 EXCEPT !.fences[fence].payload_values =
                           Store(@, list.count + 1, value)]
                  m4 == [m3 EXCEPT !.fences[fence].count = (@ + 1) % 65536]
              IN [mem |-> m4, status |-> iree_ok_status]
iree_hal_fence_insert(mem, fence, semaphore, value) ==
  LET list == iree_hal_fence_semaphore_list(mem, fence)
      found == FindExisting(list, semaphore)
  IN IF found # {}
       THEN LET i == Min(found) IN
            [mem |-> [mem EXCEPT !.fences[fence].payload_values[i] =
                        MergedValue(list.payload_values[i], value)],
             status |-> iree_ok_status]
       ELSE IF CapacityReached(list.count, mem.fences[fence].capacity)
         THEN [mem |-> mem, status |-> RESOURCE_EXHAUSTED]
         ELSE LET m1 == [mem EXCEPT !.fences[fence].semaphores =
                           Store(@, list.count + 1, semaphore)]
                  m2 == iree_hal_semaphore_retain(m1, semaphore)
                  m3 == [m2 EXCEPT !.fences[fence].payload_values =
                           Store(@, list.count + 1, value)]
                  m4 == [m3 EXCEPT !.fences[fence].count = (@ + 1) % 65536]
              IN [mem |-> m4, status |-> iree_ok_status]

\* ---- iree_hal_fence_destroy ----
RECURSIVE ReleaseSemaphores(_, _, _)
ReleaseSemaphores(mem, list, i) ==
  IF i > list.count THEN mem
  ELSE ReleaseSemaphores(
         iree_hal_semaphore_release(mem, list.semaphores[i]), list, i + 1)

iree_allocator_free(mem, fence) == [mem EXCEPT !.fences[fence] = FreeBlock]

\* mutant: the fence is freed without releasing its semaphores
iree_hal_fence_destroy_no_release(mem, fence) ==
  iree_allocator_free(mem, fence)
iree_hal_fence_destroy(mem, fence) ==
  LET list == iree_hal_fence_semaphore_list(mem, fence)
  IN iree_allocator_free(ReleaseSemaphores(mem, list, 1), fence)

\* ---- iree_hal_fence_retain / iree_hal_fence_release ----
\* mutant: the count is not incremented
iree_hal_fence_retain_noop(mem, fence) == mem
iree_hal_fence_retain(mem, fence) ==
  IF fence # NULL THEN [mem EXCEPT !.fences[fence].ref_count = @ + 1]
  ELSE mem

\* the test of the value iree_atomic_ref_count_dec returned
\* mutant: the release that leaves one reference destroys the fence
IsLastReferenceButOne(previous) == previous = 2
IsLastReference(previous) == previous = 1

iree_hal_fence_release(mem, fence) ==
  IF fence = NULL THEN mem
  ELSE LET previous == mem.fences[fence].ref_count
           m1 == [mem EXCEPT !.fences[fence].ref_count = @ - 1]
       IN IF IsLastReference(previous) THEN iree_hal_fence_destroy(m1, fence)
          ELSE m1

\* ---- iree_hal_fence_join ----
\* the sum the first loop accumulates over fences[lo..hi], by halves so that
\* long lists are summed at logarithmic depth
\* mutant: the capacities of the fences are summed instead of their counts
RECURSIVE SumCountsOfCapacities(_, _, _, _)
SumCountsOfCapacities(mem, fence_list, lo, hi) ==
  IF lo > hi THEN 0
  ELSE IF lo = hi
    THEN (IF fence_list[lo] # NULL THEN mem.fences[fence_list[lo]].capacity
          ELSE 0)
    ELSE LET mid == (lo + hi) \div 2
         IN SumCountsOfCapacities(mem, fence_list, lo, mid)
              + SumCountsOfCapacities(mem, fence_list, mid + 1, hi)
\* mutant: a null fence of the list is counted as one entry
RECURSIVE SumCountsNullAsOne(_, _, _, _)
SumCountsNullAsOne(mem, fence_list, lo, hi) ==
  IF lo > hi THEN 0
  ELSE IF lo = hi
    THEN (IF fence_list[lo] # NULL THEN mem.fences[fence_list[lo]].count
          ELSE 1)
    ELSE LET mid == (lo + hi) \div 2
         IN SumCountsNullAsOne(mem, fence_list, lo, mid)
              + SumCountsNullAsOne(mem, fence_list, mid + 1, hi)
RECURSIVE SumCounts(_, _, _, _)
SumCounts(mem, fence_list, lo, hi) ==
  IF lo > hi THEN 0
  ELSE IF lo = hi
    THEN (IF fence_list[lo] # NULL THEN mem.fences[fence_list[lo]].count
          ELSE 0)
    ELSE LET mid == (lo + hi) \div 2
         IN SumCounts(mem, fence_list, lo, mid)
              + SumCounts(mem, fence_list, mid + 1, hi)
TotalCount(mem, fence_list, i) == SumCounts(mem, fence_list, i, Len(fence_list))

\* mutant: the reference of the source fence is moved to the result instead
\* of a new one being taken
RECURSIVE InsertTimepointsMoving(_, _, _, _)
InsertTimepointsMoving(mem, fence, source_list, j) ==
  IF j > source_list.count THEN [mem |-> mem, status |-> iree_ok_status]
  ELSE LET r == iree_hal_fence_insert(mem, fence, source_list.semaphores[j],
                                      source_list.payload_values[j])
       IN IF ~iree_status_is_ok(r.status) THEN r
          ELSE InsertTimepointsMoving(
                 iree_hal_semaphore_release(r.mem, source_list.semaphores[j]),
                 fence, source_list, j + 1)
\* inner loop: insert entries j.. of one source list; stops at the first error
RECURSIVE InsertTimepoints(_, _, _, _)
InsertTimepoints(mem, fence, source_list, j) ==
  IF j > source_list.count THEN [mem |-> mem, status |-> iree_ok_status]
  ELSE LET r == iree_hal_fence_insert(mem, fence, source_list.semaphores[j],
                                      source_list.payload_values[j])
       IN IF ~iree_status_is_ok(r.status) THEN r
          ELSE InsertTimepoints(r.mem, fence, source_list, j + 1)

\* mutant: only the first input fence is inserted
InsertFirstFenceOnly(mem, fence, fence_list, i) ==
  IF i > Len(fence_list) THEN [mem |-> mem, status |-> iree_ok_status]
  ELSE InsertTimepoints(mem, fence,
                        iree_hal_fence_semaphore_list(mem, fence_list[i]), 1)

\* mutant: the input fences are inserted from the last to the first
RECURSIVE InsertFencesLastFirst(_, _, _, _)
InsertFencesLastFirst(mem, fence, fence_list, i) ==
  IF i > Len(fence_list) THEN [mem |-> mem, status |-> iree_ok_status]
  ELSE LET r == InsertFencesLastFirst(mem, fence, fence_list, i + 1)
       IN IF ~iree_status_is_ok(r.status) THEN r
          ELSE InsertTimepoints(
                 r.mem, fence,
                 iree_hal_fence_semaphore_list(mem, fence_list[i]), 1)

\* outer loop: over the input fences i..; stops at the first error
RECURSIVE InsertFences(_, _, _, _)
InsertFences(mem, fence, fence_list, i) ==
  IF i > Len(fence_list) THEN [mem |-> mem, status |-> iree_ok_status]
  ELSE LET r == InsertTimepoints(
                  mem, fence,
                  iree_hal_fence_semaphore_list(mem, fence_list[i]), 1)
       IN IF ~iree_status_is_ok(r.status) THEN r
          ELSE InsertFences(r.mem, fence, fence_list, i + 1)

\* the "empty list -> NULL" test on total_count
\* mutant: the early return is never taken
IsEmptyTotalNever(total_count) == FALSE
IsEmptyTotal(total_count) == total_count = 0

\* the early "return NULL" is the ok status: a null iree_status_t is OK
iree_hal_fence_join(mem, fence_list) ==
  LET total_count == TotalCount(mem, fence_list, 1) IN
  IF IsEmptyTotal(total_count)
    THEN [mem |-> mem, status |-> iree_ok_status, out_fence |-> NULL]
    ELSE LET c == iree_hal_fence_create(mem, total_count) IN
         IF ~iree_status_is_ok(c.status)
           THEN [mem |-> c.mem, status |-> c.status, out_fence |-> NULL]
           ELSE LET r == InsertFences(c.mem, c.out_fence, fence_list, 1) IN
                IF iree_status_is_ok(r.status)
                  THEN [mem |-> r.mem, status |-> r.status,
                        out_fence |-> c.out_fence]
                  ELSE [mem |-> iree_hal_fence_release(r.mem, c.out_fence),
                        status |-> r.status, out_fence |-> NULL]

\* ---- iree_hal_fence_signal ----
\* signal_result[s] is what iree_hal_semaphore_signal returns for semaphore s
\* mutant: no break, every semaphore is signaled, the last status returned
RECURSIVE SignalLoopNoBreak(_, _, _, _)
SignalLoopNoBreak(semaphore_list, i, signal_result, signaled) ==
  IF i > semaphore_list.count
    THEN [status |-> IF i = 1 THEN iree_ok_status
                     ELSE signal_result[semaphore_list.semaphores[i - 1]],
          signaled |-> signaled]
    ELSE SignalLoopNoBreak(
           semaphore_list, i + 1, signal_result,
           Append(signaled, <<semaphore_list.semaphores[i],
                              semaphore_list.payload_values[i]>>))

RECURSIVE SignalLoop(_, _, _, _)
SignalLoop(semaphore_list, i, signal_result, signaled) ==
  IF i > semaphore_list.count
    THEN [status |-> iree_ok_status, signaled |-> signaled]
    ELSE LET semaphore == semaphore_list.semaphores[i]
             status == signal_result[semaphore]
             log == Append(signaled,
                           <<semaphore, semaphore_list.payload_values[i]>>)
         IN IF ~iree_status_is_ok(status)
              THEN [status |-> status, signaled |-> log]
              ELSE SignalLoop(semaphore_list, i + 1, signal_result, log)

iree_hal_fence_signal(mem, fence, signal_result) ==
  SignalLoop(iree_hal_fence_semaphore_list(mem, fence), 1, signal_result, <<>>)

\* ---- iree_hal_fence_fail ----
\* a clone is a new status object with the code of the one cloned
iree_status_clone(status, id) == [code |-> status.code, id |-> id]

\* failed: the (semaphore, status) pairs handed to iree_hal_semaphore_fail;
\* clones: calls of iree_status_clone; signal_status: the local after the loop
\* is_last = (i == count - 1), on 1-based slots
\* mutant: no entry is taken for the last, every entry gets a clone
IsLastNever(i, count) == FALSE
IsLast(i, count) == i = count

\* the local after its status was handed to the last semaphore:
\* signal_status = iree_ok_status()
\* mutant: the local still names the status that was handed over
TransferredKeepsStatus(signal_status) == signal_status
Transferred(signal_status) == iree_ok_status

RECURSIVE FailLoop(_, _, _, _, _)
FailLoop(semaphore_list, i, signal_status, failed, clones) ==
  IF i > semaphore_list.count
    THEN [failed |-> failed, clones |-> clones, ignored |-> signal_status]
    ELSE LET is_last == IsLast(i, semaphore_list.count)
             semaphore == semaphore_list.semaphores[i]
         IN IF is_last
              THEN FailLoop(semaphore_list, i + 1, Transferred(signal_status),
                            Append(failed, <<semaphore, signal_status>>),
                            clones)
              ELSE FailLoop(semaphore_list, i + 1, signal_status,
                            Append(failed,
                                   <<semaphore,
                                     iree_status_clone(signal_status,
                                                       signal_status.id + clones + 1)>>),
                            clones + 1)

iree_hal_fence_fail(mem, fence, signal_status) ==
  FailLoop(iree_hal_fence_semaphore_list(mem, fence), 1, signal_status,
           <<>>, 0)

\* ---- results of calls ----
NoRet ==
  [op |-> "none", fence |-> NULL, fences |-> <<>>,
   status |-> iree_ok_status, out |-> NULL,
   signal_result |-> <<>>, signaled |-> <<>>, failed |-> <<>>, clones |-> 0,
   ignored |-> iree_ok_status,
   list |-> [count |-> 0, semaphores |-> <<>>, payload_values |-> <<>>]]

\* ---- inputs of the environment ----
\* what the semaphore primitive may answer to a signal: ok, or its own error
SignalError(semaphore) == [code |-> "UNAVAILABLE", id |-> semaphore]
SignalResults ==
  {[s \in Sems |-> IF s \in failing THEN SignalError(s) ELSE iree_ok_status] :
     failing \in SUBSET Sems}
\* failure statuses handed to Fail: one status object (id 1) of some code
FailureStatuses == {[code |-> c, id |-> 1] : c \in {"ABORTED", "INTERNAL"}}

RECURSIVE SeqsUpTo(_, _)
SeqsUpTo(S, n) ==
  IF n = 0 THEN {<<>>}
  ELSE LET shorter == SeqsUpTo(S, n - 1) IN
       shorter \cup {Append(q, x) : q \in {r \in shorter : Len(r) = n - 1},
                                    x \in S}

\* ---- the threads of SpecOwners and the program of SpecRewrite, at rest ----
NumOwners == 2      \* threads 1..NumOwners sharing one fence
Owners == 1..NumOwners
\* fence: the fence they share; destroys: calls of iree_hal_fence_destroy;
\* held: references on the fence the thread owns; previous: what its
\* iree_atomic_ref_count_dec returned while it is inside iree_hal_fence_release
NoOwners ==
  [threads |-> [o \in Owners |-> [held |-> 0, at |-> "idle", previous |-> 0]],
   fence |-> NULL, destroys |-> 0]
\* ops: the operations in program order, the result of ops[k] is the SSA
\* value k; rule, op, before: the pattern applied last, the operation it
\* matched and that operation as it was
NoOp ==
  [kind |-> "none", semaphores |-> <<>>, min_values |-> <<>>,
   fences |-> <<>>, timeout_millis |-> 0, value |-> 0]
NoIr == [ops |-> <<>>, rule |-> "none", op |-> 0, before |-> NoOp]

Live(a) == fences[a].live
LiveFences == {a \in FenceAddrs : Live(a)}
FenceLists == SeqsUpTo(LiveFences \cup {NULL}, MaxJoin)

Init ==
  /\ fences = [a \in FenceAddrs |-> FreeBlock]
  /\ semaphore_refs = [s \in Sems |-> 0]
  /\ ret = NoRet
  /\ script = <<>>
  /\ pc = 0
  /\ owners = NoOwners
  /\ ir = NoIr

SetMem(mem) ==
  /\ fences' = mem.fences
  /\ semaphore_refs' = mem.semaphore_refs

Create(capacity) ==
  /\ HasFreeBlock(Mem)
  /\ LET r == iree_hal_fence_create(Mem, capacity) IN
     /\ SetMem(r.mem)
     /\ ret' = [NoRet EXCEPT !.op = "create",
                             !.status = r.status, !.out = r.out_fence]
  /\ UNCHANGED <<script, pc, owners, ir>>

Insert(fence, semaphore, value) ==
  /\ Live(fence)
  /\ LET r == iree_hal_fence_insert(Mem, fence, semaphore, value) IN
     /\ SetMem(r.mem)
     /\ ret' = [NoRet EXCEPT !.op = "insert", !.fence = fence,
                             !.status = r.status]
  /\ UNCHANGED <<script, pc, owners, ir>>

Join(fence_list) ==
  /\ HasFreeBlock(Mem)
  /\ LET r == iree_hal_fence_join(Mem, fence_list) IN
     /\ SetMem(r.mem)
     /\ ret' = [NoRet EXCEPT !.op = "join", !.fences = fence_list,
                             !.status = r.status, !.out = r.out_fence]
  /\ UNCHANGED <<script, pc, owners, ir>>

Retain(fence) ==
  /\ fence # NULL => fences[fence].ref_count < MaxRef
  /\ SetMem(iree_hal_fence_retain(Mem, fence))
  /\ ret' = [NoRet EXCEPT !.op = "retain", !.fence = fence]
  /\ UNCHANGED <<script, pc, owners, ir>>

Release(fence) ==
  /\ SetMem(iree_hal_fence_release(Mem, fence))
  /\ ret' = [NoRet EXCEPT !.op = "release", !.fence = fence]
  /\ UNCHANGED <<script, pc, owners, ir>>

Signal(fence, signal_result) ==
  /\ LET r == iree_hal_fence_signal(Mem, fence, signal_result) IN
     ret' = [NoRet EXCEPT !.op = "signal", !.fence = fence,
                          !.signal_result = signal_result,
                          !.status = r.status, !.signaled = r.signaled]
  /\ UNCHANGED <<fences, semaphore_refs, script, pc, owners, ir>>

Fail(fence, signal_status) ==
  /\ LET r == iree_hal_fence_fail(Mem, fence, signal_status) IN
     ret' = [NoRet EXCEPT !.op = "fail", !.fence = fence,
                          !.status = signal_status, !.failed = r.failed,
                          !.clones = r.clones, !.ignored = r.ignored]
  /\ UNCHANGED <<fences, semaphore_refs, script, pc, owners, ir>>

SemaphoreList(fence) ==
  /\ ret' = [NoRet EXCEPT !.op = "semaphore_list", !.fence = fence,
                          !.list = iree_hal_fence_semaphore_list(Mem, fence)]
  /\ UNCHANGED <<fences, semaphore_refs, script, pc, owners, ir>>

\* ---- Spec: several fences; construction, insertion, joining, release ----
Next ==
  \/ \E capacity \in Capacities \cup {UINT16_MAX} : Create(capacity)
  \/ \E fence \in LiveFences, semaphore \in Sems, value \in Values :
       Insert(fence, semaphore, value)
  \/ \E fence_list \in FenceLists : Join(fence_list)
  \/ \E fence \in LiveFences \cup {NULL} : Release(fence)

Spec == Init /\ [][Next]_vars

\* ---- SpecOne: every operation of the API on one fence at a time ----
\* the environment creates one fence at a time and joins while at most one
\* fence is live
CreateOne(capacity) == LiveFences = {} /\ Create(capacity)
JoinOne(fence_list) == Cardinality(LiveFences) <= 1 /\ Join(fence_list)

NextOne ==
  \/ \E capacity \in Capacities : CreateOne(capacity)
  \/ \E fence \in LiveFences, semaphore \in Sems, value \in Values :
       Insert(fence, semaphore, value)
  \/ \E fence \in LiveFences \cup {NULL} : Retain(fence)
  \/ \E fence \in LiveFences \cup {NULL} : Release(fence)
  \/ \E fence \in LiveFences \cup {NULL}, signal_result \in SignalResults :
       Signal(fence, signal_result)
  \/ \E fence \in LiveFences \cup {NULL}, signal_status \in FailureStatuses :
       Fail(fence, signal_status)
  \/ \E fence \in LiveFences \cup {NULL} : SemaphoreList(fence)
  \/ \E fence_list \in FenceLists : JoinOne(fence_list)

SpecOne == Init /\ [][NextOne]_vars

\* ---- SpecInsert: one fence is created, then a drawn sequence of Insert
\* calls (the script) is performed on it in order ----
InsertCalls == Sems \X Values

InitInsert ==
  /\ fences = [a \in FenceAddrs |-> FreeBlock]
  /\ semaphore_refs = [s \in Sems |-> 0]
  /\ ret = NoRet
  /\ script \in SeqsUpTo(InsertCalls, MaxLen)
  /\ pc = 0
  /\ owners = NoOwners
  /\ ir = NoIr

ScriptCreate(capacity) ==
  /\ LiveFences = {}
  /\ pc = 0
  /\ LET r == iree_hal_fence_create(Mem, capacity) IN
     /\ SetMem(r.mem)
     /\ ret' = [NoRet EXCEPT !.op = "create",
                             !.status = r.status, !.out = r.out_fence]
  /\ UNCHANGED <<script, pc, owners, ir>>

ScriptInsert(fence) ==
  /\ Live(fence)
  /\ pc < Len(script)
  /\ LET semaphore == script[pc + 1][1]
         value == script[pc + 1][2]
         r == iree_hal_fence_insert(Mem, fence, semaphore, value) IN
     /\ SetMem(r.mem)
     /\ ret' = [NoRet EXCEPT !.op = "insert", !.fence = fence,
                             !.status = r.status]
  /\ pc' = pc + 1
  /\ UNCHANGED <<script, owners, ir>>

NextInsert ==
  \/ \E capacity \in Capacities : ScriptCreate(capacity)
  \/ \E fence \in LiveFences : ScriptInsert(fence)

SpecInsert == InitInsert /\ [][NextInsert]_vars

\* ---- SpecRef: one fence is created and filled, then a drawn sequence of
\* Retain and Release calls (the script) is performed on it in order ----
MaxCalls == 5       \* length of a Retain/Release script (SpecRef)

InitRef ==
  /\ fences = [a \in FenceAddrs |-> FreeBlock]
  /\ semaphore_refs = [s \in Sems |-> 0]
  /\ ret = NoRet
  /\ script \in SeqsUpTo({"retain", "release"}, MaxCalls)
  /\ pc = 0
  /\ owners = NoOwners
  /\ ir = NoIr

\* the fence is filled before the first call of the script
InsertBeforeScript(fence, semaphore, value) ==
  pc = 0 /\ Insert(fence, semaphore, value)

ScriptRetain(fence) ==
  /\ Live(fence)
  /\ pc < Len(script) /\ script[pc + 1] = "retain"
  /\ SetMem(iree_hal_fence_retain(Mem, fence))
  /\ ret' = [NoRet EXCEPT !.op = "retain", !.fence = fence]
  /\ pc' = pc + 1
  /\ UNCHANGED <<script, owners, ir>>

ScriptRelease(fence) ==
  /\ Live(fence)
  /\ pc < Len(script) /\ script[pc + 1] = "release"
  /\ SetMem(iree_hal_fence_release(Mem, fence))
  /\ ret' = [NoRet EXCEPT !.op = "release", !.fence = fence]
  /\ pc' = pc + 1
  /\ UNCHANGED <<script, owners, ir>>

NextRef ==
  \/ \E capacity \in Capacities : ScriptCreate(capacity)
  \/ \E fence \in LiveFences, semaphore \in Sems, value \in Values :
       InsertBeforeScript(fence, semaphore, value)
  \/ \E fence \in LiveFences : ScriptRetain(fence)
  \/ \E fence \in LiveFences : ScriptRelease(fence)

SpecRef == InitRef /\ [][NextRef]_vars

\* ---- SpecOwners: threads that own references on one fence retain and
\* release it concurrently.  The reference count is an atomic: an increment
\* is one step; a release is the atomic decrement, then, in a later step of
\* the same thread, the test of the value it returned and the destruction ----
MaxHeld == 3        \* references held on the fence by all threads together

RECURSIVE HeldBy(_)
HeldBy(S) ==
  IF S = {} THEN 0
  ELSE LET o == CHOOSE x \in S : TRUE
       IN owners.threads[o].held + HeldBy(S \ {o})
TotalHeld == HeldBy(Owners)

\* iree_atomic_ref_count_dec: decrements and returns the previous value
iree_atomic_ref_count_dec(mem, fence) ==
  [mem |-> [mem EXCEPT !.fences[fence].ref_count = @ - 1],
   previous |-> mem.fences[fence].ref_count]

\* the first thread creates the fence and owns its reference
OwnersCreate(capacity) ==
  /\ owners.fence = NULL
  /\ LET r == iree_hal_fence_create(Mem, capacity) IN
     /\ SetMem(r.mem)
     /\ ret' = [NoRet EXCEPT !.op = "create",
                             !.status = r.status, !.out = r.out_fence]
     /\ owners' = [owners EXCEPT !.fence = r.out_fence,
                                 !.threads[1].held = 1]
  /\ UNCHANGED <<script, pc, ir>>

\* the fence is filled by its creator before it is shared
OwnersInsert(semaphore, value) ==
  /\ owners.fence # NULL /\ Live(owners.fence)
  /\ fences[owners.fence].ref_count = 1
  /\ owners.threads[1] = [held |-> 1, at |-> "idle", previous |-> 0]
  /\ ret.op \in {"create", "insert"}
  /\ Insert(owners.fence, semaphore, value)

\* a thread that owns a reference retains the fence, for itself or to hand
\* the new reference to another thread
OwnerRetain(o, to) ==
  /\ owners.threads[o].at = "idle" /\ owners.threads[o].held >= 1
  /\ TotalHeld < MaxHeld
  /\ SetMem(iree_hal_fence_retain(Mem, owners.fence))
  /\ ret' = [NoRet EXCEPT !.op = "retain", !.fence = owners.fence]
  /\ owners' = [owners EXCEPT !.threads[to].held = @ + 1]
  /\ UNCHANGED <<script, pc, ir>>

\* iree_hal_fence_release up to the return of the atomic decrement
OwnerReleaseDec(o) ==
  /\ owners.threads[o].at = "idle" /\ owners.threads[o].held >= 1
  /\ LET r == iree_atomic_ref_count_dec(Mem, owners.fence) IN
     /\ SetMem(r.mem)
     /\ owners' = [owners EXCEPT
                     !.threads[o] = [held |-> @.held - 1, at |-> "released",
                                     previous |-> r.previous]]
  /\ ret' = [NoRet EXCEPT !.op = "release", !.fence = owners.fence]
  /\ UNCHANGED <<script, pc, ir>>

\* the rest of iree_hal_fence_release: destroy if the decrement returned 1
OwnerReleaseFinish(o) ==
  /\ owners.threads[o].at = "released"
  /\ LET last == IsLastReference(owners.threads[o].previous) IN
     /\ SetMem(IF last THEN iree_hal_fence_destroy(Mem, owners.fence)
               ELSE Mem)
     /\ owners' = [owners EXCEPT
                     !.threads[o] = [@ EXCEPT !.at = "idle", !.previous = 0],
                     !.destroys = IF last THEN @ + 1 ELSE @]
  /\ ret' = [NoRet EXCEPT !.op = "release", !.fence = owners.fence]
  /\ UNCHANGED <<script, pc, ir>>

NextOwners ==
  \/ \E capacity \in Capacities : OwnersCreate(capacity)
  \/ \E semaphore \in Sems, value \in Values : OwnersInsert(semaphore, value)
  \/ \E o, to \in Owners : OwnerRetain(o, to)
  \/ \E o \in Owners : OwnerReleaseDec(o)
  \/ \E o \in Owners : OwnerReleaseFinish(o)

SpecOwners == Init /\ [][NextOwners]_vars

\* ---- SpecCreate: a drawn sequence of capacities is passed to Create, one
\* call after the other; the capacities include those around the limit ----
CreateCapacities == Capacities \cup {UINT16_MAX - 1, UINT16_MAX, UINT16_MAX + 1}

InitCreate ==
  /\ fences = [a \in FenceAddrs |-> FreeBlock]
  /\ semaphore_refs = [s \in Sems |-> 0]
  /\ ret = NoRet
  /\ script \in SeqsUpTo(CreateCapacities, MaxLen)
  /\ pc = 0
  /\ owners = NoOwners
  /\ ir = NoIr

CreateNext ==
  /\ pc < Len(script)
  /\ HasFreeBlock(Mem)
  /\ LET r == iree_hal_fence_create(Mem, script[pc + 1]) IN
     /\ SetMem(r.mem)
     /\ ret' = [NoRet EXCEPT !.op = "create",
                             !.status = r.status, !.out = r.out_fence]
  /\ pc' = pc + 1
  /\ UNCHANGED <<script, owners, ir>>

NextCreate == CreateNext

SpecCreate == InitCreate /\ [][NextCreate]_vars

\* ---- SpecJoinMany: Join is called with one fence repeated in its list,
\* up to so many times that the sum of the counts is no valid capacity ----
Repeats == {1, UINT16_MAX}

\* the list of n times |fence|, built once as a sequence; the long list is
\* joined right after the fence was built (its result depends on the fence only)
JoinRepeated(fence, n) ==
  /\ Cardinality(LiveFences) <= 1
  /\ ret.op # "join"
  /\ \E fence_list \in {[i \in 1..n |-> fence] \o <<>>} : Join(fence_list)

\* short input lists with null and repeated fences
JoinLists == SeqsUpTo(LiveFences \cup {NULL}, MaxJoin + 1)

NextJoinMany ==
  \/ \E capacity \in Capacities : CreateOne(capacity)
  \/ \E fence \in LiveFences, semaphore \in Sems, value \in Values :
       Insert(fence, semaphore, value)
  \/ \E fence \in LiveFences, n \in Repeats : JoinRepeated(fence, n)
  \/ \E fence_list \in JoinLists : Join(fence_list)

SpecJoinMany == Init /\ [][NextJoinMany]_vars

\* ---- the canonicalization patterns of hal.fence.create / join / await
\* (HALOpFolders.cpp) ----
\* A fence operand is an SSA value: the result k of ops[k], or a value with no
\* defining operation (a block argument), numbered after the operations.  A
\* min_value operand is the sequence of the values it is the maximum of: <<v>>
\* is the value v itself, a longer one the result of a util.range.max.
MaxOps == 2         \* operations of a program
MaxOperands == 3    \* timepoints of a create, fences of a join / await
NumArgs == 1        \* fence values without a defining operation
NumTimeouts == 2    \* values used as timeout_millis

FenceArgs == (MaxOps + 1)..(MaxOps + NumArgs)
Timeouts == 1..NumTimeouts

NullOp == [NoOp EXCEPT !.kind = "util.null"]
ConstantIntOp(value) == [NoOp EXCEPT !.kind = "arith.constant", !.value = value]
FenceCreateOp(semaphores, min_values) ==
  [NoOp EXCEPT !.kind = "hal.fence.create", !.semaphores = semaphores,
               !.min_values = min_values]
FenceJoinOp(fence_operands) ==
  [NoOp EXCEPT !.kind = "hal.fence.join", !.fences = fence_operands]
FenceAwaitOp(timeout_millis, fence_operands) ==
  [NoOp EXCEPT !.kind = "hal.fence.await", !.timeout_millis = timeout_millis,
               !.fences = fence_operands]

getNumOperands(op) ==
  IF op.kind = "hal.fence.create" THEN Len(op.semaphores) + Len(op.min_values)
  ELSE IF op.kind = "hal.fence.join" THEN Len(op.fences)
  ELSE IF op.kind = "hal.fence.await" THEN 1 + Len(op.fences)
  ELSE 0

\* a pattern's answer: failure(), or success() and the replacement
failure == [success |-> FALSE, op |-> NoOp]
success(op) == [success |-> TRUE, op |-> op]

\* insertion into a SetVector / the key order of a MapVector: the elements in
\* order of first insertion
RECURSIVE SetVector(_, _, _)
SetVector(seq, i, vector) ==
  IF i > Len(seq) THEN vector
  ELSE SetVector(seq, i + 1,
                 IF \E k \in 1..Len(vector) : vector[k] = seq[i] THEN vector
                 ELSE Append(vector, seq[i]))

\* --- hal.fence.create ---
ElideEmptyFenceCreate(op) ==
  IF getNumOperands(op) # 0 THEN failure ELSE success(NullOp)

\* rewriter.createOrFold<IREE::Util::RangeMaxOp>(values): the maximum of the
\* values, here the operand naming all of them
RECURSIVE Flatten(_, _)
Flatten(values, i) ==
  IF i > Len(values) THEN <<>> ELSE values[i] \o Flatten(values, i + 1)
util_range_max(values) == SetVector(Flatten(values, 1), 1, <<>>)

\* the min_value pushed for one semaphore of the map
\* mutant: the first value given for the semaphore is taken
JoinedMinValueFirst(values) == values[1]
JoinedMinValue(values) ==
  IF Len(values) = 1 THEN values[1] ELSE util_range_max(values)

\* timepoints[semaphore]: the SetVector of the min_values zipped with it
\* mutant: only the last min_value zipped with the semaphore is kept
TimepointValuesLast(op, semaphore) ==
  LET at == SelectSeq([i \in 1..Len(op.semaphores) |-> i],
                      LAMBDA i : op.semaphores[i] = semaphore)
  IN <<op.min_values[at[Len(at)]]>>
TimepointValues(op, semaphore) ==
  LET at == SelectSeq([i \in 1..Len(op.semaphores) |-> i],
                      LAMBDA i : op.semaphores[i] = semaphore)
  IN SetVector([k \in 1..Len(at) |-> op.min_values[at[k]]], 1, <<>>)

DeduplicateFenceCreateTimepoints(op) ==
  IF getNumOperands(op) = 1 + 1 THEN failure
  ELSE LET timepoints == SetVector(op.semaphores, 1, <<>>) IN
       IF Len(timepoints) = Len(op.semaphores) THEN failure
       ELSE success(FenceCreateOp(
              timepoints,
              [k \in 1..Len(timepoints) |->
                 JoinedMinValue(TimepointValues(op, timepoints[k]))]))

\* --- hal.fence.join / hal.fence.await ---
\* isa_and_nonnull<IREE::Util::NullOp>(operand.getDefiningOp())
\* mutant: no operand is recognised as a null
isa_NullOp_never(ops, operand) == FALSE
isa_NullOp(ops, operand) ==
  operand \in 1..Len(ops) /\ ops[operand].kind = "util.null"

\* the test for "nothing changed"
\* mutant: an unchanged list is rewritten too
NothingChangedNever(newOperands, operands) == FALSE
NothingChanged(newOperands, operands) == Len(newOperands) = Len(operands)

\* None, or the deduplicated and null-elided operand list
\* mutant: the duplicates are dropped, the null constants are kept
deduplicateFenceOperandsKeepNulls(ops, operands) ==
  LET newOperands == SetVector(operands, 1, <<>>)
  IN IF NothingChanged(newOperands, operands)
       THEN [none |-> TRUE, value |-> <<>>]
       ELSE [none |-> FALSE, value |-> newOperands]
deduplicateFenceOperands(ops, operands) ==
  LET newOperands ==
        SetVector(SelectSeq(operands, LAMBDA v : ~isa_NullOp(ops, v)), 1, <<>>)
  IN IF NothingChanged(newOperands, operands)
       THEN [none |-> TRUE, value |-> <<>>]
       ELSE [none |-> FALSE, value |-> newOperands]

ElideEmptyFenceJoin(op) ==
  IF getNumOperands(op) # 0 THEN failure ELSE success(NullOp)

DeduplicateFenceJoinFences(ops, op) ==
  LET newOperands == deduplicateFenceOperands(ops, op.fences) IN
  IF newOperands.none THEN failure
  ELSE success(FenceJoinOp(newOperands.value))

\* op.fences().empty()
\* mutant: one fence counts as none
NoFencesButOne(fence_operands) == Len(fence_operands) <= 1
NoFences(fence_operands) == Len(fence_operands) = 0

ElideEmptyFenceAwait(op) ==
  IF ~NoFences(op.fences) THEN failure ELSE success(ConstantIntOp(0))

DeduplicateFenceAwaitFences(ops, op) ==
  LET newOperands == deduplicateFenceOperands(ops, op.fences) IN
  IF newOperands.none THEN failure
  ELSE success(FenceAwaitOp(op.timeout_millis, newOperands.value))

\* ---- SpecRewrite: the canonicalizer applies the patterns of an operation's
\* kind to the operations of a drawn program, in any order, as long as one
\* matches ----
\* the fence values an operation placed after |ops| may use
FenceValues(ops) ==
  {k \in 1..Len(ops) :
     ops[k].kind \in {"util.null", "hal.fence.create", "hal.fence.join"}}
    \cup FenceArgs
\* the operations that may follow |ops|; a create has up to n timepoints
OpsAfter(ops, n) ==
  {NullOp}
    \cup {FenceCreateOp([i \in 1..Len(t) |-> t[i][1]],
                        [i \in 1..Len(t) |-> <<t[i][2]>>]) :
            t \in SeqsUpTo(Sems \X Values, n)}
    \cup {FenceJoinOp(f) : f \in SeqsUpTo(FenceValues(ops), MaxOperands)}
    \cup {FenceAwaitOp(timeout_millis, f) :
            timeout_millis \in Timeouts,
            f \in SeqsUpTo(FenceValues(ops), MaxOperands)}
\* the programs of up to |len| operations
RECURSIVE Programs(_, _)
Programs(len, n) ==
  IF len = 0 THEN {<<>>}
  ELSE LET shorter == Programs(len - 1, n) IN
       shorter \cup UNION {{Append(ops, op) : op \in OpsAfter(ops, n)} :
                             ops \in {q \in shorter : Len(q) = len - 1}}

InitRewrite ==
  /\ fences = [a \in FenceAddrs |-> FreeBlock]
  /\ semaphore_refs = [s \in Sems |-> 0]
  /\ ret = NoRet
  /\ script = <<>>
  /\ pc = 0
  /\ owners = NoOwners
  /\ ir \in {[NoIr EXCEPT !.ops = ops] : ops \in Programs(MaxOps, MaxOperands)}

\* replaceOpWithNewOp: the new operation takes the place and the result value
\* of the matched one
Rewrite(rule, k, kind, result) ==
  /\ ir.ops[k].kind = kind
  /\ result.success
  /\ ir' = [ops |-> [ir.ops EXCEPT ![k] = result.op],
            rule |-> rule, op |-> k, before |-> ir.ops[k]]
  /\ UNCHANGED <<fences, semaphore_refs, ret, script, pc, owners>>

ApplyElideEmptyFenceCreate(k) ==
  Rewrite("ElideEmptyFenceCreate", k, "hal.fence.create",
          ElideEmptyFenceCreate(ir.ops[k]))
ApplyDeduplicateFenceCreateTimepoints(k) ==
  Rewrite("DeduplicateFenceCreateTimepoints", k, "hal.fence.create",
          DeduplicateFenceCreateTimepoints(ir.ops[k]))
ApplyElideEmptyFenceJoin(k) ==
  Rewrite("ElideEmptyFenceJoin", k, "hal.fence.join",
          ElideEmptyFenceJoin(ir.ops[k]))
ApplyDeduplicateFenceJoinFences(k) ==
  Rewrite("DeduplicateFenceJoinFences", k, "hal.fence.join",
          DeduplicateFenceJoinFences(ir.ops, ir.ops[k]))
ApplyElideEmptyFenceAwait(k) ==
  Rewrite("ElideEmptyFenceAwait", k, "hal.fence.await",
          ElideEmptyFenceAwait(ir.ops[k]))
ApplyDeduplicateFenceAwaitFences(k) ==
  Rewrite("DeduplicateFenceAwaitFences", k, "hal.fence.await",
          DeduplicateFenceAwaitFences(ir.ops, ir.ops[k]))

NextRewrite ==
  \/ \E k \in 1..Len(ir.ops) : ApplyElideEmptyFenceCreate(k)
  \/ \E k \in 1..Len(ir.ops) : ApplyDeduplicateFenceCreateTimepoints(k)
  \/ \E k \in 1..Len(ir.ops) : ApplyElideEmptyFenceJoin(k)
  \/ \E k \in 1..Len(ir.ops) : ApplyDeduplicateFenceJoinFences(k)
  \/ \E k \in 1..Len(ir.ops) : ApplyElideEmptyFenceAwait(k)
  \/ \E k \in 1..Len(ir.ops) : ApplyDeduplicateFenceAwaitFences(k)

SpecRewrite == InitRewrite /\ [][NextRewrite]_vars

\* ---- SpecRewriteFair: the pattern driver goes on while a pattern matches;
\* the programs drawn have creates of up to MaxFairTimepoints timepoints ----
MaxFairTimepoints == 2

InitRewriteFair ==
  /\ fences = [a \in FenceAddrs |-> FreeBlock]
  /\ semaphore_refs = [s \in Sems |-> 0]
  /\ ret = NoRet
  /\ script = <<>>
  /\ pc = 0
  /\ owners = NoOwners
  /\ ir \in {[NoIr EXCEPT !.ops = ops] :
               ops \in Programs(MaxOps, MaxFairTimepoints)}

SpecRewriteFair ==
  InitRewriteFair /\ [][NextRewrite]_vars /\ WF_vars(NextRewrite)

\* ---- vocabulary of the properties ----
Occupied(f) == {<<f.semaphores[i], f.payload_values[i]>> : i \in 1..f.count}
OccupiedSems(f) == {f.semaphores[i] : i \in 1..f.count}
Largest(S) == CHOOSE x \in S : \A y \in S : y <= x
SemsOf(calls) == {calls[i][1] : i \in 1..Len(calls)}
ValuesFor(calls, s) == {calls[i][2] : i \in {k \in 1..Len(calls) : calls[k][1] = s}}
\* the distinct semaphores of a call sequence, each with its largest value
Merged(calls) == {<<s, Largest(ValuesFor(calls, s))>> : s \in SemsOf(calls)}
InsertsDone == SubSeq(script, 1, pc)

\* the fence obtained by Create(capacity) and the Insert calls, in order
RECURSIVE InsertAll(_, _, _, _)
InsertAll(mem, fence, calls, i) ==
  IF i > Len(calls) THEN mem
  ELSE InsertAll(iree_hal_fence_insert(mem, fence, calls[i][1], calls[i][2]).mem,
                 fence, calls, i + 1)
FenceBuilt(capacity, calls) ==
  LET c == iree_hal_fence_create(
             [fences |-> [a \in FenceAddrs |-> FreeBlock],
              semaphore_refs |-> [s \in Sems |-> 0]], capacity)
  IN InsertAll(c.mem, c.out_fence, calls, 1).fences[c.out_fence]

\* C1: after any sequence of Insert calls whose distinct semaphores fit the
\* capacity, the occupied entries are exactly the distinct semaphores inserted,
\* each with the largest value inserted for it, and every permutation of the
\* sequence gives the same set of (semaphore, value) pairs.
C1_InsertMergeIsOrderFree ==
  \A a \in LiveFences :
    Cardinality(SemsOf(InsertsDone)) <= fences[a].capacity =>
      /\ fences[a].count = Cardinality(SemsOf(InsertsDone))
      /\ Occupied(fences[a]) = Merged(InsertsDone)
      /\ \A p \in Permutations(1..pc) :
           Occupied(FenceBuilt(fences[a].capacity,
                               [i \in 1..pc |-> InsertsDone[p[i]]]))
             = Occupied(fences[a])

\* a finished script of three calls on two semaphores in which a larger value
\* for a semaphore came before a smaller one
C1_Witness ==
  /\ pc = Len(script) /\ pc >= 3
  /\ \E a \in LiveFences : fences[a].count = 2
  /\ \E i, j \in 1..pc :
       i < j /\ script[i][1] = script[j][1] /\ script[i][2] > script[j][2]

\* C2: on a fence created with capacity C, an Insert of a semaphore not
\* inserted before succeeds while it is among the first C distinct semaphores,
\* and returns resource-exhaustion when it is a (C+1)-th distinct one.
C2_CapacityDistinctInserts ==
  \A a \in LiveFences :
    (/\ pc >= 1
     /\ ret.op = "insert"
     /\ script[pc][1] \notin SemsOf(SubSeq(script, 1, pc - 1))) =>
       IF Cardinality(SemsOf(InsertsDone)) <= fences[a].capacity
         THEN ret.status = iree_ok_status
         ELSE ret.status = RESOURCE_EXHAUSTED

\* the insert after a capacity of at least one was filled is rejected
C2_Witness ==
  /\ ret.op = "insert" /\ ret.status = RESOURCE_EXHAUSTED
  /\ \E a \in LiveFences :
       /\ fences[a].capacity >= 1
       /\ Cardinality(SemsOf(InsertsDone)) = fences[a].capacity + 1
       /\ fences[a].count = fences[a].capacity

\* C3: an Insert of a semaphore already present succeeds (also on a full
\* fence), leaves count and the semaphore's reference count unchanged, and
\* the stored value becomes the larger of the stored and the given one.
C3_ReinsertStep ==
  \A a \in LiveFences :
    (pc' = pc + 1 /\ script[pc + 1][1] \in OccupiedSems(fences[a])) =>
      LET value == script[pc + 1][2]
          i == CHOOSE k \in 1..fences[a].count :
                 fences[a].semaphores[k] = script[pc + 1][1]
          stored == fences[a].payload_values[i]
      IN /\ ret'.op = "insert" /\ ret'.status = iree_ok_status
         /\ fences'[a].count = fences[a].count
         /\ fences'[a].semaphores = fences[a].semaphores
         /\ semaphore_refs' = semaphore_refs
         /\ fences'[a].payload_values =
              [fences[a].payload_values EXCEPT
                 ![i] = IF value > stored THEN value ELSE stored]
         /\ fences'[a].payload_values[i] >= stored
C3_ReinsertMerges == [][C3_ReinsertStep]_vars

\* a semaphore present in a full fence was inserted again with a smaller value
C3_Witness ==
  /\ pc >= 2 /\ ret.op = "insert" /\ ret.status.code = "OK"
  /\ \E a \in LiveFences :
       /\ fences[a].count = fences[a].capacity
       /\ script[pc][1] \in SemsOf(SubSeq(script, 1, pc - 1))
       /\ \E i \in 1..fences[a].count :
            /\ fences[a].semaphores[i] = script[pc][1]
            /\ fences[a].payload_values[i] > script[pc][2]

\* C4: in every reachable state the semaphores in the occupied region
\* (slots 1..count) of every fence are pairwise distinct.
C4_OccupiedDistinct ==
  \A a \in LiveFences :
    \A i, j \in 1..fences[a].count :
      i # j => fences[a].semaphores[i] # fences[a].semaphores[j]

\* a join result that holds two semaphores in a capacity larger than two:
\* the same semaphore came in from more than one input
C4_Witness ==
  /\ ret.op = "join" /\ ret.out # NULL
  /\ fences[ret.out].count = 2
  /\ fences[ret.out].capacity > 2

\* C5: count <= capacity in every state, and no operation changes the
\* capacity of a fence that exists before and after it.
C5_CountWithinCapacity ==
  \A a \in LiveFences : fences[a].count <= fences[a].capacity
C5_CapacityStep ==
  \A a \in FenceAddrs :
    (fences[a].live /\ fences'[a].live) =>
      fences'[a].capacity = fences[a].capacity
C5_CapacityBoundsCount == []C5_CountWithinCapacity /\ [][C5_CapacityStep]_vars

\* an insert was rejected by a fence whose count had reached its capacity
C5_Witness ==
  /\ ret.op = "insert" /\ ret.status.code = "RESOURCE_EXHAUSTED"
  /\ fences[ret.fence].live
  /\ fences[ret.fence].capacity = 1
  /\ fences[ret.fence].count = 1

\* C6: the references each semaphore holds on behalf of fences are as many
\* as the live fences whose occupied region contains it (one retain per fence
\* at the first insert, one release at destruction); with no fence left it
\* is zero.
C6_SemaphoreRefsMatchFences ==
  \A s \in Sems :
    semaphore_refs[s] =
      Cardinality({a \in LiveFences : s \in OccupiedSems(fences[a])})

\* a fence holding two semaphores was destroyed by a release while another
\* fence still holds one of them
C6_Witness ==
  /\ ret.op = "release" /\ ret.fence # NULL /\ ~Live(ret.fence)
  /\ \E s \in Sems : semaphore_refs[s] = 2
  /\ \E s \in Sems : semaphore_refs[s] = 1

\* the inputs of the last Join that are fences
JoinInputs == {ret.fences[i] : i \in 1..Len(ret.fences)} \ {NULL}
JoinInputPairs == UNION {Occupied(fences[a]) : a \in JoinInputs}
JoinInputSems == UNION {OccupiedSems(fences[a]) : a \in JoinInputs}

\* C7: Join of a list with at least one occupied entry returns a new fence
\* whose occupied entries are exactly the distinct semaphores of the inputs,
\* each with the largest value recorded for it over all inputs.
C7_JoinMaxMerge ==
  (ret.op = "join" /\ JoinInputSems # {}) =>
    /\ ret.status = iree_ok_status
    /\ ret.out # NULL /\ ret.out \notin JoinInputs
    /\ Live(ret.out)
    /\ fences[ret.out].ref_count = 1
    /\ fences[ret.out].count = Cardinality(JoinInputSems)
    /\ Occupied(fences[ret.out]) =
         {<<s, Largest({pr[2] : pr \in {q \in JoinInputPairs : q[1] = s}})>> :
            s \in JoinInputSems}

\* C7 amended: Join of a list with at least one occupied entry whose counts
\* sum to a capacity Create accepts (below UINT16_MAX) returns a new fence
\* whose occupied entries are exactly the distinct semaphores of the inputs,
\* each with the largest value recorded for it over all inputs.
C7_AcceptedJoinMaxMerge ==
  (/\ ret.op = "join" /\ JoinInputSems # {}
   /\ TotalCount(Mem, ret.fences, 1) < UINT16_MAX) =>
    /\ ret.status = iree_ok_status
    /\ ret.out # NULL /\ ret.out \notin JoinInputs
    /\ Live(ret.out)
    /\ fences[ret.out].ref_count = 1
    /\ fences[ret.out].count = Cardinality(JoinInputSems)
    /\ Occupied(fences[ret.out]) =
         {<<s, Largest({pr[2] : pr \in {q \in JoinInputPairs : q[1] = s}})>> :
            s \in JoinInputSems}

\* the case A = {s1:5}, B = {s1:3, s2:7}: the first input holds a larger
\* value for a semaphore of the second, which holds one more semaphore
C7_Witness ==
  /\ ret.op = "join" /\ Len(ret.fences) = 2 /\ ret.out # NULL
  /\ ret.fences[1] # NULL /\ ret.fences[2] # NULL
  /\ ret.fences[1] # ret.fences[2]
  /\ fences[ret.fences[1]].count = 1
  /\ fences[ret.fences[2]].count = 2
  /\ fences[ret.fences[2]].semaphores[1] = fences[ret.fences[1]].semaphores[1]
  /\ fences[ret.fences[2]].payload_values[1]
       < fences[ret.fences[1]].payload_values[1]

\* C8: Join of a list (possibly empty) of null or empty fences returns
\* success and a null fence; nothing is allocated, no semaphore retained.
C8_JoinEmptyStep ==
  (/\ ret'.op = "join"
   /\ \A i \in 1..Len(ret'.fences) :
        ret'.fences[i] = NULL \/ fences[ret'.fences[i]].count = 0) =>
    /\ ret'.status = iree_ok_status
    /\ ret'.out = NULL
    /\ fences' = fences
    /\ semaphore_refs' = semaphore_refs
C8_JoinEmptyIsNull == [][C8_JoinEmptyStep]_vars

\* a join of a null fence and an empty fence returned null
C8_Witness ==
  /\ ret.op = "join" /\ ret.out = NULL /\ ret.status.code = "OK"
  /\ Len(ret.fences) = 2
  /\ ret.fences[1] = NULL
  /\ ret.fences[2] # NULL /\ fences[ret.fences[2]].count = 0

\* the semaphore list of the fence of the last call
RetList == iree_hal_fence_semaphore_list(Mem, ret.fence)

\* C9: Signal signals the semaphores in occupancy order, each to its recorded
\* value, stops at the first one whose signal fails and returns that error;
\* when none fails it signals all of them and returns success.
C9_SignalStopsAtFirstError ==
  ret.op = "signal" =>
    LET failing == {i \in 1..RetList.count :
                      ret.signal_result[RetList.semaphores[i]].code # "OK"}
        last == IF failing = {} THEN RetList.count
                ELSE CHOOSE i \in failing : \A k \in failing : i <= k
    IN /\ ret.signaled =
            [i \in 1..last |->
               <<RetList.semaphores[i], RetList.payload_values[i]>>]
       /\ ret.status = IF failing = {} THEN iree_ok_status
                       ELSE ret.signal_result[RetList.semaphores[last]]

\* on a fence of two entries the first signal failed (the second would have
\* failed too): one semaphore was signaled and its error returned
C9_Witness ==
  /\ ret.op = "signal" /\ ret.fence # NULL
  /\ RetList.count = 2
  /\ \A s \in Sems : ret.signal_result[s].code # "OK"
  /\ Len(ret.signaled) = 1
  /\ ret.status = SignalError(RetList.semaphores[1])

\* C10: Fail on a fence with N >= 1 entries clones the status N-1 times:
\* entries 1..N-1 each receive a clone, the last receives the original.
C10_FailClonesAllButLast ==
  (ret.op = "fail" /\ RetList.count >= 1) =>
    LET n == RetList.count IN
    /\ ret.clones = n - 1
    /\ Len(ret.failed) = n
    /\ \A i \in 1..n : ret.failed[i][1] = RetList.semaphores[i]
    /\ ret.failed[n][2] = ret.status
    /\ \A i \in 1..(n - 1) :
         /\ ret.failed[i][2].code = ret.status.code
         /\ ret.failed[i][2].id # ret.status.id
    /\ \A i, j \in 1..n : i # j => ret.failed[i][2].id # ret.failed[j][2].id

\* a fail on a fence of two entries: one clone, then the original
C10_Witness ==
  /\ ret.op = "fail" /\ ret.fence # NULL
  /\ RetList.count = 2
  /\ ret.clones = 1
  /\ ret.failed[2][2] = ret.status
\* the status objects of the last Fail: the one passed in and its clones, and
\* the objects consumed, in order: those handed to iree_hal_semaphore_fail,
\* then the one given to iree_status_ignore (ignoring the ok status consumes
\* nothing)
FailCreated == {ret.status.id + k : k \in 0..ret.clones}
FailConsumed ==
  [i \in 1..Len(ret.failed) |-> ret.failed[i][2].id]
    \o (IF iree_status_is_ok(ret.ignored) THEN <<>> ELSE <<ret.ignored.id>>)

\* C11: Fail hands a failure to every occupied semaphore once, in occupancy
\* order, and every status object involved (the original and each clone) is
\* consumed exactly once: handed to one semaphore, or, on a null or empty
\* fence, discarded.
C11_FailConsumesEachStatusOnce ==
  ret.op = "fail" =>
    /\ Len(ret.failed) = RetList.count
    /\ \A i \in 1..RetList.count :
         /\ ret.failed[i][1] = RetList.semaphores[i]
         /\ ret.failed[i][2].code = ret.status.code
    /\ \A id \in FailCreated :
         Cardinality({i \in 1..Len(FailConsumed) : FailConsumed[i] = id}) = 1
    /\ \A i \in 1..Len(FailConsumed) : FailConsumed[i] \in FailCreated
    /\ RetList.count = 0 => (ret.failed = <<>> /\ ret.ignored = ret.status)
    /\ RetList.count >= 1 => iree_status_is_ok(ret.ignored)

\* a fail on a fence of two entries consumed two objects, one per semaphore,
\* and had nothing left to discard
C11_Witness ==
  /\ ret.op = "fail" /\ ret.fence # NULL
  /\ RetList.count = 2
  /\ Len(FailConsumed) = 2
  /\ FailConsumed[1] # FailConsumed[2]
  /\ ret.ignored = iree_ok_status
\* the Retain and Release calls of the script performed so far
Retains == Cardinality({i \in 1..pc : script[i] = "retain"})
Releases == Cardinality({i \in 1..pc : script[i] = "release"})
\* the script of n Retain calls followed by n Release calls
RoundTrip(n) == [i \in 1..(2 * n) |-> IF i <= n THEN "retain" ELSE "release"]

\* C12 as stated: N Retain calls followed by N Release calls destroy the
\* fence, and not before the N-th release.
C12_RoundTripDestroys ==
  \A n \in 1..MaxCalls :
    (script = RoundTrip(n) /\ ret.op # "none") =>
      /\ pc < 2 * n => LiveFences # {}
      /\ pc = 2 * n => LiveFences = {}

\* C12 amended: a created fence holds the reference of its creation, so after
\* R Retain and L Release calls it is live with reference count 1 + R - L as
\* long as L <= R; N retains followed by N releases leave it live with count
\* one, and it is destroyed once, by the release that makes L = R + 1, which
\* also releases its semaphores.
C12_RoundTripKeepsCreationReference ==
  ret.op # "none" =>
    /\ LiveFences # {} <=> Releases <= Retains
    /\ \A a \in LiveFences : fences[a].ref_count = 1 + Retains - Releases
    /\ LiveFences = {} =>
         /\ Releases = Retains + 1
         /\ script[pc] = "release"
         /\ \A s \in Sems : semaphore_refs[s] = 0
    /\ \A n \in 1..MaxCalls :
         (script = RoundTrip(n) /\ pc = 2 * n) =>
           \E a \in LiveFences : fences[a].ref_count = 1

\* two retains and two releases left a fence that holds a semaphore live with
\* one reference
C12_Witness ==
  /\ script = RoundTrip(2) /\ pc = 4
  /\ \E a \in LiveFences : fences[a].ref_count = 1 /\ fences[a].count >= 1
\* C13: with several threads owning references on one fence and retaining
\* and releasing it in any interleaving (none releasing more than it owns),
\* the fence is destroyed exactly once, by the release whose decrement took
\* the count from one to zero, never while the count is nonzero, and that
\* destruction releases each semaphore the fence holds exactly once.
C13_DestroyedNotTwice ==
  /\ owners.destroys <= 1
  /\ owners.fence # NULL =>
       /\ Live(owners.fence) =>
            /\ owners.destroys = 0
            /\ fences[owners.fence].ref_count = TotalHeld
       /\ ~Live(owners.fence) =>
            /\ owners.destroys = 1
            /\ TotalHeld = 0
            /\ \A s \in Sems : semaphore_refs[s] = 0
       /\ (TotalHeld = 0 /\ \A o \in Owners : owners.threads[o].at = "idle")
            => ~Live(owners.fence)
C13_DestroyStep ==
  (owners'.destroys # owners.destroys
   \/ (owners.fence # NULL /\ Live(owners.fence) /\ ~fences'[owners.fence].live))
    =>
    /\ owners'.destroys = owners.destroys + 1
    /\ Live(owners.fence) /\ ~fences'[owners.fence].live
    /\ fences[owners.fence].ref_count = 0
    /\ \E o \in Owners :
         /\ owners.threads[o].at = "released"
         /\ owners.threads[o].previous = 1
         /\ owners'.threads[o].at = "idle"
    /\ \A s \in Sems :
         semaphore_refs'[s] =
           semaphore_refs[s]
             - (IF s \in OccupiedSems(fences[owners.fence]) THEN 1 ELSE 0)
C13_SharedFenceDestroyedOnce ==
  []C13_DestroyedNotTwice /\ [][C13_DestroyStep]_vars

\* the creator gave its reference back first; the second thread's decrement
\* then took the count of the fence, which holds two semaphores, from one to
\* zero, and that thread is about to destroy it
C13_Witness ==
  /\ owners.fence # NULL /\ Live(owners.fence)
  /\ owners.destroys = 0
  /\ fences[owners.fence].ref_count = 0
  /\ fences[owners.fence].count = 2
  /\ owners.threads[1] = [held |-> 0, at |-> "idle", previous |-> 0]
  /\ owners.threads[2] = [held |-> 0, at |-> "released", previous |-> 1]
\* C14 as stated: Create succeeds for every capacity that fits the 16-bit
\* count field (0..65535), returning a fence with reference count one, count
\* zero and no semaphore retained, and returns resource-exhaustion with a null
\* output only when the capacity is larger than that.
C14_CreateAcceptsSixteenBitCapacities ==
  (ret.op = "create" /\ pc >= 1) =>
    LET capacity == script[pc] IN
    IF capacity <= UINT16_MAX
      THEN /\ ret.status = iree_ok_status
           /\ ret.out # NULL /\ Live(ret.out)
           /\ fences[ret.out].ref_count = 1
           /\ fences[ret.out].count = 0
           /\ fences[ret.out].capacity = capacity
           /\ \A s \in Sems : semaphore_refs[s] = 0
      ELSE /\ ret.status = RESOURCE_EXHAUSTED
           /\ ret.out = NULL
\* the elements of a sequence in order, each kept at its first appearance
RECURSIVE FirstAppearancesFrom(_, _, _)
FirstAppearancesFrom(seq, i, kept) ==
  IF i > Len(seq) THEN kept
  ELSE FirstAppearancesFrom(
         seq, i + 1,
         IF \E k \in 1..Len(kept) : kept[k] = seq[i] THEN kept
         ELSE Append(kept, seq[i]))
FirstAppearances(seq) == FirstAppearancesFrom(seq, 1, <<>>)
\* the semaphores of the inputs of the last Join: inputs in input order, each
\* input's occupied entries in its own order
RECURSIVE JoinInputOrder(_)
JoinInputOrder(i) ==
  IF i > Len(ret.fences) THEN <<>>
  ELSE iree_hal_fence_semaphore_list(Mem, ret.fences[i]).semaphores
         \o JoinInputOrder(i + 1)

\* C15: the occupancy order of a fence is the order in which its distinct
\* semaphores were first inserted (an Insert keeps the entries in place and
\* puts a new semaphore after them); the order of a Join result is that of
\* its inputs in input order, each input's entries in its own order, every
\* semaphore at its first appearance, hence the same for the same inputs.
C15_JoinOrder ==
  (ret.op = "join" /\ ret.out # NULL) =>
    fences[ret.out].semaphores = FirstAppearances(JoinInputOrder(1))
C15_InsertOrderStep ==
  \A a \in FenceAddrs :
    (fences[a].live /\ fences'[a].live) =>
      \/ fences'[a].semaphores = fences[a].semaphores
      \/ \E s \in Sems \ OccupiedSems(fences[a]) :
           fences'[a].semaphores = Append(fences[a].semaphores, s)
C15_OrderOfFirstInsertion == []C15_JoinOrder /\ [][C15_InsertOrderStep]_vars

\* a join whose second input lists its two semaphores in the opposite order
\* of the result: the first input put the other semaphore first
C15_Witness ==
  /\ ret.op = "join" /\ ret.out # NULL /\ Len(ret.fences) = 2
  /\ ret.fences[1] # NULL /\ ret.fences[2] # NULL
  /\ fences[ret.fences[1]].semaphores = <<2>>
  /\ fences[ret.fences[2]].semaphores = <<1, 2>>
  /\ fences[ret.out].semaphores = <<2, 1>>
\* C16: whenever Join returns an error its output is null, no fence it built
\* is left (the heap is as before the call) and every semaphore's reference
\* count is what it was before the call.
C16_JoinErrorStep ==
  (ret'.op = "join" /\ ~iree_status_is_ok(ret'.status)) =>
    /\ ret'.out = NULL
    /\ fences' = fences
    /\ semaphore_refs' = semaphore_refs
C16_JoinErrorLeavesNothing == [][C16_JoinErrorStep]_vars

\* a join of 65535 times the same fence of two entries was rejected: the sum
\* of the counts is no capacity Create accepts
C16_Witness ==
  /\ ret.op = "join" /\ ret.status = RESOURCE_EXHAUSTED /\ ret.out = NULL
  /\ Len(ret.fences) = UINT16_MAX
  /\ Live(ret.fences[1]) /\ fences[ret.fences[1]].count = 2
  /\ \A s \in Sems : semaphore_refs[s] = 1
\* ---- the rewrites: the operation matched last, before and after ----
Rewritten == ir.ops[ir.op]
\* a fence operand defined by a null constant
IsNullConstant(v) == v \in 1..Len(ir.ops) /\ ir.ops[v].kind = "util.null"
\* the value a min_value operand stands for: the largest of the values named
MinValueOf(operand) == Largest({operand[i] : i \in 1..Len(operand)})
\* the min_value operands a create gives for a semaphore
OperandsFor(op, semaphore) ==
  {op.min_values[i] : i \in {k \in 1..Len(op.semaphores) :
                               op.semaphores[k] = semaphore}}
HasRepeatedSemaphore(op) ==
  \E i, j \in 1..Len(op.semaphores) :
    i # j /\ op.semaphores[i] = op.semaphores[j]

\* C17: on a create with a repeated semaphore the create-dedup pattern gives a
\* create whose semaphores are the distinct ones in order of first
\* appearance, each with the maximum of the values given for it (the value
\* itself when only one distinct value was given); it does not match a create
\* whose semaphores are all distinct.
C17_CreateDedupTakesMaximum ==
  /\ \A k \in 1..Len(ir.ops) :
       ir.ops[k].kind = "hal.fence.create" =>
         (DeduplicateFenceCreateTimepoints(ir.ops[k]).success
            <=> HasRepeatedSemaphore(ir.ops[k]))
  /\ ir.rule = "DeduplicateFenceCreateTimepoints" =>
       /\ HasRepeatedSemaphore(ir.before)
       /\ Rewritten.kind = "hal.fence.create"
       /\ Rewritten.semaphores = FirstAppearances(ir.before.semaphores)
       /\ Len(Rewritten.min_values) = Len(Rewritten.semaphores)
       /\ \A k \in 1..Len(Rewritten.semaphores) :
            LET given == OperandsFor(ir.before, Rewritten.semaphores[k]) IN
            /\ MinValueOf(Rewritten.min_values[k])
                 = Largest({MinValueOf(operand) : operand \in given})
            /\ Cardinality(given) = 1 => Rewritten.min_values[k] \in given

\* the create [(s1,0), (s1,1), (s2,0)] became [(s1, max(0,1)), (s2,0)]
C17_Witness ==
  /\ ir.rule = "DeduplicateFenceCreateTimepoints"
  /\ ir.before.semaphores = <<1, 1, 2>>
  /\ ir.before.min_values = << <<0>>, <<1>>, <<0>> >>
  /\ Rewritten.semaphores = <<1, 2>>
  /\ Rewritten.min_values = << <<0, 1>>, <<0>> >>
  /\ MinValueOf(Rewritten.min_values[1]) = 1

\* C18: join-elision and await-elision match an operation only when its fence
\* operand list, after dropping null constants and duplicates, is empty; they
\* never match one with a fence operand that is no null constant.
C18_ElisionOnlyWithoutFences ==
  ir.rule \in {"ElideEmptyFenceJoin", "ElideEmptyFenceAwait"} =>
    /\ FirstAppearances(SelectSeq(ir.before.fences,
                                  LAMBDA v : ~IsNullConstant(v))) = <<>>
    /\ \A i \in 1..Len(ir.before.fences) : IsNullConstant(ir.before.fences[i])
    /\ ir.before.kind = (IF ir.rule = "ElideEmptyFenceJoin"
                           THEN "hal.fence.join" ELSE "hal.fence.await")
    /\ Rewritten = (IF ir.rule = "ElideEmptyFenceJoin" THEN NullOp
                    ELSE ConstantIntOp(0))

\* an await left without fences by the dedup pattern was replaced by the
\* constant 0
C18_Witness ==
  /\ ir.rule = "ElideEmptyFenceAwait" /\ ir.op = 2
  /\ ir.before = FenceAwaitOp(2, <<>>)
  /\ ir.ops = <<NullOp, ConstantIntOp(0)>>

\* C19: the dedup pattern of join and await gives an operation of the same
\* kind whose fence operands are the original ones that are no null
\* constants, each once, in order of first appearance; an await keeps its
\* timeout operand; the pattern does not match a list without null constant
\* and without duplicate.
C19_FenceDedupKeepsFirstAppearances ==
  /\ \A k \in 1..Len(ir.ops) :
       LET op == ir.ops[k]
           reducible ==
             \/ \E i \in 1..Len(op.fences) : IsNullConstant(op.fences[i])
             \/ \E i, j \in 1..Len(op.fences) :
                  i # j /\ op.fences[i] = op.fences[j]
       IN /\ op.kind = "hal.fence.join" =>
               (DeduplicateFenceJoinFences(ir.ops, op).success <=> reducible)
          /\ op.kind = "hal.fence.await" =>
               (DeduplicateFenceAwaitFences(ir.ops, op).success <=> reducible)
  /\ ir.rule \in {"DeduplicateFenceJoinFences", "DeduplicateFenceAwaitFences"}
       =>
       /\ Rewritten.kind = ir.before.kind
       /\ Rewritten.fences =
            FirstAppearances(SelectSeq(ir.before.fences,
                                       LAMBDA v : ~IsNullConstant(v)))
       /\ Len(Rewritten.fences) < Len(ir.before.fences)
       /\ Rewritten.timeout_millis = ir.before.timeout_millis
       /\ Rewritten.semaphores = <<>> /\ Rewritten.min_values = <<>>

\* an await of (argument, created fence, argument) with timeout 2 became the
\* await of (argument, created fence) with timeout 2
C19_Witness ==
  /\ ir.rule = "DeduplicateFenceAwaitFences" /\ ir.op = 2
  /\ ir.ops[1].kind = "hal.fence.create"
  /\ ir.before = FenceAwaitOp(2, <<3, 1, 3>>)
  /\ Rewritten = FenceAwaitOp(2, <<3, 1>>)

\* the operations the patterns are about, and whether one of them matches
FenceOps(ops) ==
  {k \in 1..Len(ops) :
     ops[k].kind \in {"hal.fence.create", "hal.fence.join", "hal.fence.await"}}
PatternMatches(ops, k) ==
  \/ ops[k].kind = "hal.fence.create"
       /\ (ElideEmptyFenceCreate(ops[k]).success
           \/ DeduplicateFenceCreateTimepoints(ops[k]).success)
  \/ ops[k].kind = "hal.fence.join"
       /\ (ElideEmptyFenceJoin(ops[k]).success
           \/ DeduplicateFenceJoinFences(ops, ops[k]).success)
  \/ ops[k].kind = "hal.fence.await"
       /\ (ElideEmptyFenceAwait(ops[k]).success
           \/ DeduplicateFenceAwaitFences(ops, ops[k]).success)

\* C20: applying the six patterns to a program of create / join / await
\* operations, in any order, ends in a program no pattern matches; every
\* application shortens the operand list of the operation it matched or
\* lowers the number of such operations, and leaves the others as they were.
C20_RewriteStep ==
  ir' # ir =>
    LET k == ir'.op IN
    /\ \A j \in 1..Len(ir.ops) : j # k => ir'.ops[j] = ir.ops[j]
    /\ Len(ir'.ops) = Len(ir.ops)
    /\ \/ /\ ir'.ops[k].kind = ir.ops[k].kind
          /\ getNumOperands(ir'.ops[k]) < getNumOperands(ir.ops[k])
       \/ Cardinality(FenceOps(ir'.ops)) < Cardinality(FenceOps(ir.ops))
C20_NoPatternMatches == \A k \in 1..Len(ir.ops) : ~PatternMatches(ir.ops, k)
C20_RewritesTerminate == [][C20_RewriteStep]_vars /\ <>[]C20_NoPatternMatches

\* a program of a join and an await of it was rewritten until nothing
\* matched: a null constant and the constant 0 are left
C20_Witness ==
  /\ C20_NoPatternMatches
  /\ ir.rule = "ElideEmptyFenceAwait"
  /\ ir.before.timeout_millis = 1
  /\ ir.ops = <<NullOp, ConstantIntOp(0)>>

\* ---- the rewritten program against the run-time fence ----
\* the Insert calls a create operation stands for at run time: its
\* (semaphore, min_value) operands in order, a range.max operand standing for
\* the largest of the values it names
InsertsOf(op) ==
  [i \in 1..Len(op.semaphores) |->
     <<op.semaphores[i], MinValueOf(op.min_values[i])>>]
\* the fence a create operation builds at run time, with room for every operand
FenceOf(op) == FenceBuilt(Len(op.semaphores), InsertsOf(op))

\* C21: the create-dedup pattern preserves the run-time fence: inserting the
\* (semaphore, value) operands of the matched create in order and inserting
\* those of the create that replaces it give fences with the same count, the
\* same semaphores in the same occupancy order and the same values.
C21_CreateDedupPreservesFence ==
  ir.rule = "DeduplicateFenceCreateTimepoints" =>
    LET original == FenceOf(ir.before)
        rewritten == FenceOf(Rewritten)
    IN /\ rewritten.count = original.count
       /\ Occupied(rewritten) = Occupied(original)
       /\ SubSeq(rewritten.semaphores, 1, rewritten.count)
            = SubSeq(original.semaphores, 1, original.count)
       /\ SubSeq(rewritten.payload_values, 1, rewritten.count)
            = SubSeq(original.payload_values, 1, original.count)

\* a create of (2, 1), (1, 0), (2, 0) was rewritten: both fences hold
\* semaphore 2 at value 1 first and semaphore 1 at value 0 second
C21_Witness ==
  /\ ir.rule = "DeduplicateFenceCreateTimepoints"
  /\ ir.before = FenceCreateOp(<<2, 1, 2>>, <<<<1>>, <<0>>, <<0>>>>)
  /\ FenceOf(ir.before).count = 2
  /\ SubSeq(FenceOf(ir.before).semaphores, 1, 2) = <<2, 1>>
  /\ SubSeq(FenceOf(Rewritten).payload_values, 1, 2) = <<1, 0>>

\* ---- Join of a list with null and repeated fences ----
\* the elements of a set of indices, in increasing order
Ordered(S) ==
  [k \in 1..Cardinality(S) |->
     CHOOSE i \in S : Cardinality({j \in S : j < i}) = k - 1]
\* the list with all null fences removed and every fence kept only at its
\* first occurrence
WithoutNullsAndRepeats(fence_list) ==
  LET firsts == {i \in 1..Len(fence_list) :
                   /\ fence_list[i] # NULL
                   /\ \A j \in 1..(i - 1) : fence_list[j] # fence_list[i]}
      at == Ordered(firsts)
  IN [k \in 1..Len(at) |-> fence_list[at[k]]]
\* two outcomes of Join are the same: the same status, both results null or
\* both with the same entries, values and occupancy order
SameJoin(r1, r2) ==
  /\ r1.status = r2.status
  /\ (r1.out_fence = NULL) <=> (r2.out_fence = NULL)
  /\ r1.out_fence # NULL =>
       LET f1 == r1.mem.fences[r1.out_fence]
           f2 == r2.mem.fences[r2.out_fence]
       IN /\ f1.count = f2.count
          /\ SubSeq(f1.semaphores, 1, f1.count)
               = SubSeq(f2.semaphores, 1, f2.count)
          /\ SubSeq(f1.payload_values, 1, f1.count)
               = SubSeq(f2.payload_values, 1, f2.count)
\* the Join just made against Join of the reduced list, from the same memory
JoinSameAsReduced ==
  SameJoin([mem |-> [fences |-> fences', semaphore_refs |-> semaphore_refs'],
            status |-> ret'.status, out_fence |-> ret'.out],
           iree_hal_fence_join(Mem, WithoutNullsAndRepeats(ret'.fences)))

\* C22 as stated: for every input list, Join of the list has the same outcome
\* (same entries, values and occupancy order, or both null) as Join of the
\* list with all null fences removed and every fence kept only at its first
\* occurrence.
C22_JoinIgnoresNullsAndRepeats ==
  [][ret'.op = "join" => JoinSameAsReduced]_vars

\* C22 amended: for every input list on which Join succeeds, Join of the list
\* has the same outcome as Join of the list with all null fences removed and
\* every fence kept only at its first occurrence.
C22_SuccessfulJoinIgnoresNullsAndRepeats ==
  [][(ret'.op = "join" /\ iree_status_is_ok(ret'.status))
       => JoinSameAsReduced]_vars

\* fence 2, fence 1 and fence 2 again were joined: the result has the two
\* entries that Join of fence 2 and fence 1 has, in a block of capacity 4
C22_Witness ==
  /\ ret.op = "join" /\ ret.fences = <<2, 1, 2>> /\ ret.out = 3
  /\ iree_status_is_ok(ret.status)
  /\ fences[1].count = 2 /\ fences[2].count = 1
  /\ fences[3].capacity = 4 /\ fences[3].count = 2
  /\ fences[3].semaphores[1] = fences[2].semaphores[1]
  /\ WithoutNullsAndRepeats(ret.fences) = <<2, 1>>

\* ---- an empty fence against a null fence ----
\* the list with every occurrence of |fence| replaced by a null fence
WithNullFor(fence_list, fence) ==
  [i \in 1..Len(fence_list) |->
     IF fence_list[i] = fence THEN NULL ELSE fence_list[i]]
EmptyFences == {a \in LiveFences : fences[a].count = 0}

\* C23: a fence with zero occupied entries behaves as a null fence: Signal
\* succeeds and signals nothing, Fail fails no semaphore and discards the
\* status, SemaphoreList has count 0, and in an input list of Join it
\* contributes no entry (the result is that of the list with null in its
\* place).
C23_EmptyFenceAsNull ==
  \A a \in EmptyFences :
    /\ \A signal_result \in SignalResults :
         LET r == iree_hal_fence_signal(Mem, a, signal_result) IN
         /\ r = iree_hal_fence_signal(Mem, NULL, signal_result)
         /\ iree_status_is_ok(r.status) /\ r.signaled = <<>>
    /\ \A signal_status \in FailureStatuses :
         LET r == iree_hal_fence_fail(Mem, a, signal_status) IN
         /\ r = iree_hal_fence_fail(Mem, NULL, signal_status)
         /\ r.failed = <<>> /\ r.clones = 0 /\ r.ignored = signal_status
    /\ iree_hal_fence_semaphore_list(Mem, a).count = 0
    /\ iree_hal_fence_semaphore_list(Mem, NULL).count = 0
    /\ HasFreeBlock(Mem) =>
         \A fence_list \in FenceLists :
           iree_hal_fence_join(Mem, fence_list)
             = iree_hal_fence_join(Mem, WithNullFor(fence_list, a))

\* an empty fence of capacity 1 and a fence with an entry were joined: the
\* result has the one entry of the second, as Join of null and the second has
C23_Witness ==
  /\ ret.op = "join" /\ Len(ret.fences) = 2 /\ ret.out # NULL
  /\ ret.fences[1] \in EmptyFences /\ fences[ret.fences[1]].capacity = 1
  /\ ret.fences[2] # NULL /\ fences[ret.fences[2]].count = 1
  /\ fences[ret.out].count = 1 /\ fences[ret.out].capacity = 1
  /\ fences[ret.out].semaphores[1] = fences[ret.fences[2]].semaphores[1]

\* ---- joins and awaits of null constants ----
\* operation k is a join / an await all of whose fence operands are null
\* constants
AllNull(op) == \A i \in 1..Len(op.fences) : IsNullConstant(op.fences[i])
AllNullJoin(k) ==
  k \in 1..Len(ir.ops) /\ ir.ops[k].kind = "hal.fence.join"
    /\ AllNull(ir.ops[k])
AllNullAwait(k) ==
  k \in 1..Len(ir.ops) /\ ir.ops[k].kind = "hal.fence.await"
    /\ AllNull(ir.ops[k])
\* the dedup pattern, matching an operation of null constants only, leaves it
\* without fence operands, and the elision pattern of its kind matches that
C24_DedupStep ==
  (/\ ir' # ir
   /\ ir'.rule \in {"DeduplicateFenceJoinFences", "DeduplicateFenceAwaitFences"}
   /\ AllNull(ir.ops[ir'.op])) =>
    LET op == ir'.ops[ir'.op] IN
    /\ op.fences = <<>>
    /\ op.kind = "hal.fence.join" => ElideEmptyFenceJoin(op).success
    /\ op.kind = "hal.fence.await" => ElideEmptyFenceAwait(op).success

\* C24: when no pattern matches any more, no join and no await of null
\* constants only is left; every join whose operands are all null constants
\* is in the end replaced by the null constant and every such await by the
\* constant 0 (ok); on the way the dedup pattern leaves the operation
\* without fence operands and the elision pattern then matches it.
C24_NullJoinsAndAwaitsElided ==
  /\ [](C20_NoPatternMatches =>
          \A k \in 1..MaxOps : ~AllNullJoin(k) /\ ~AllNullAwait(k))
  /\ [][C24_DedupStep]_vars
  /\ \A k \in 1..MaxOps :
       /\ AllNullJoin(k) ~> (k \in 1..Len(ir.ops) /\ ir.ops[k] = NullOp)
       /\ AllNullAwait(k)
            ~> (k \in 1..Len(ir.ops) /\ ir.ops[k] = ConstantIntOp(0))

\* the join of a null constant given twice was left without operands by the
\* dedup pattern; the elision pattern matches what is left
C24_Witness ==
  /\ ir.rule = "DeduplicateFenceJoinFences" /\ ir.op = 2
  /\ ir.ops[1] = NullOp
  /\ ir.before = FenceJoinOp(<<1, 1>>)
  /\ Rewritten = FenceJoinOp(<<>>)
  /\ ElideEmptyFenceJoin(Rewritten).success

\* ---- a rejected Insert ----
\* C25: an Insert that returns the resource-exhaustion error leaves the fence
\* as it was (count, semaphores, values, reference count) and retains no
\* semaphore: the heap and every semaphore's reference count are unchanged.
C25_RejectedInsertStep ==
  (ret'.op = "insert" /\ ret'.status = RESOURCE_EXHAUSTED) =>
    /\ fences' = fences
    /\ semaphore_refs' = semaphore_refs
C25_RejectedInsertChangesNothing == [][C25_RejectedInsertStep]_vars

\* a fence of capacity 1 holding one semaphore rejected the other one, which
\* nothing refers to
C25_Witness ==
  /\ ret.op = "insert" /\ ret.status = RESOURCE_EXHAUSTED
  /\ Live(ret.fence)
  /\ fences[ret.fence].capacity = 1 /\ fences[ret.fence].count = 1
  /\ fences[ret.fence].ref_count = 1
  /\ script[pc][1] # fences[ret.fence].semaphores[1]
  /\ semaphore_refs[script[pc][1]] = 0
  /\ semaphore_refs[fences[ret.fence].semaphores[1]] = 1

\* ---- the calls that only read their fences ----
\* the references the result of the Join just made holds on semaphore s
ResultHolds(s) ==
  IF ret'.out # NULL /\ s \in OccupiedSems(fences'[ret'.out]) THEN 1 ELSE 0
C26_ReadOnlyStep ==
  /\ ret'.op \in {"signal", "fail", "semaphore_list"} =>
       fences' = fences /\ semaphore_refs' = semaphore_refs
  /\ ret'.op = "join" =>
       /\ \A a \in LiveFences : fences'[a] = fences[a]
       /\ \A s \in Sems : semaphore_refs'[s] = semaphore_refs[s] + ResultHolds(s)
  /\ ret'.op = "release" =>
       \A a \in LiveFences \ {ret'.fence} : fences'[a] = fences[a]
\* every live fence has a reference on each semaphore it holds
C26_EntriesReferenced ==
  \A a \in LiveFences : \A s \in OccupiedSems(fences[a]) :
    semaphore_refs[s] >= Cardinality({b \in LiveFences :
                                        s \in OccupiedSems(fences[b])})

\* C26: Signal, Fail, SemaphoreList and Join leave every fence passed to them
\* unchanged (count, semaphores, values, capacity, reference count); the
\* result of Join holds one reference of its own on each of its semaphores,
\* so that releasing the inputs leaves the result and its references intact.
C26_CallsLeaveFencesUnchanged ==
  [][C26_ReadOnlyStep]_vars /\ []C26_EntriesReferenced

\* the input at address 1 of a join was released and destroyed; the result
\* at address 2 still holds its two semaphores, each referenced once
C26_Witness ==
  /\ ret.op = "release" /\ ret.fence = 1 /\ ~Live(1)
  /\ Live(2) /\ fences[2].count = 2 /\ fences[2].ref_count = 1
  /\ \A s \in Sems : semaphore_refs[s] = 1

\* ---- the capacity Join asks for ----
\* the sum of the occupied counts of the non-null fences of a list, a fence
\* counted once for every time the list names it
RECURSIVE CountsTimes(_, _)
CountsTimes(fence_list, S) ==
  IF S = {} THEN 0
  ELSE LET a == CHOOSE x \in S : TRUE
       IN fences[a].count
            * Cardinality({i \in 1..Len(fence_list) : fence_list[i] = a})
          + CountsTimes(fence_list, S \ {a})
CountSum(fence_list) ==
  CountsTimes(fence_list,
              {fence_list[i] : i \in 1..Len(fence_list)} \ {NULL})
C27_JoinCapacityStep ==
  ret'.op = "join" =>
    LET total == CountSum(ret'.fences)
        rejected == ~iree_status_is_ok(iree_hal_fence_create(Mem, total).status)
    IN /\ (ret'.status = RESOURCE_EXHAUSTED) <=> rejected
       /\ rejected <=> total >= UINT16_MAX
       /\ ~rejected => iree_status_is_ok(ret'.status)
       /\ (~rejected /\ total > 0) =>
            /\ ret'.out # NULL
            /\ fences'[ret'.out].capacity = total
            /\ fences'[ret'.out].count <= total

\* C27: the result of Join has as capacity the sum of the occupied counts of
\* the non-null inputs, an input counted once for every time it is listed;
\* no Insert inside Join is rejected, and Join returns the
\* resource-exhaustion error exactly when Create rejects that sum, however
\* few distinct semaphores the inputs hold.
C27_JoinCapacityIsSumOfCounts == [][C27_JoinCapacityStep]_vars

\* a join of 65535 times a fence holding one semaphore was rejected: the sum
\* is 65535 although the inputs hold a single semaphore
C27_Witness ==
  /\ ret.op = "join" /\ ret.status = RESOURCE_EXHAUSTED /\ ret.out = NULL
  /\ Len(ret.fences) = UINT16_MAX
  /\ Live(ret.fences[1]) /\ fences[ret.fences[1]].count = 1
  /\ CountSum(ret.fences) = UINT16_MAX
  /\ Cardinality(JoinInputSems) = 1
====
